---- MODULE Spec2Model ----
(***************************************************************************)
(* schema-diff (src/src/index.ts): the schema parsers, the diff engine,    *)
(* the breaking-change predicate and the --breaking-only filter, as run by *)
(* main().                                                                 *)
(*                                                                         *)
(* Strings are TLA+ strings (TLC evaluates Len, SubSeq and \o on them).    *)
(* A JavaScript Map is a sequence of entries with pairwise distinct names, *)
(* in insertion order.  A value that may be null/undefined is <<>> (null)  *)
(* or <<v>>.                                                               *)
(***************************************************************************)
EXTENDS Integers, Sequences, FiniteSets, TLC

VARIABLES pc, oldFile, newFile, oldSchema, newSchema, diff, breakingOnly, breaking, err

vars == <<pc, oldFile, newFile, oldSchema, newSchema, diff, breakingOnly, breaking, err>>

\* ------------------------------------------------------------- bounds
\* Most columns and constraints (together) one input schema holds.
MaxItems == 2
\* Most tables one input schema holds.
MaxTables == 2
\* Most clauses the CREATE TABLE statement of one input SQL file holds.
MaxClauses == 2

\* ------------------------------------------------------------ helpers
Null == <<>>
Some(v) == <<v>>

Range(s) == {s[i] : i \in 1..Len(s)}

RECURSIVE SeqsUpTo(_, _)
\* The sequences over S of length at most n.
SeqsUpTo(S, n) ==
  IF n = 0 THEN {<<>>}
  ELSE LET shorter == SeqsUpTo(S, n - 1)
       IN shorter \cup {Append(s, x) : s \in {t \in shorter : Len(t) = n - 1}, x \in S}

\* Map.has / Map.get / Map.keys / Map.set on a sequence of named entries.
MapHas(m, k) == \E i \in 1..Len(m) : m[i].name = k
MapGet(m, k) == m[CHOOSE i \in 1..Len(m) : m[i].name = k]
MapKeys(m) == [i \in 1..Len(m) |-> m[i].name]
MapSet(m, v) ==
  IF MapHas(m, v.name)
  THEN [i \in 1..Len(m) |-> IF m[i].name = v.name THEN v ELSE m[i]]
  ELSE Append(m, v)

RECURSIVE Join(_, _)
\* Array.prototype.join
Join(strs, sep) ==
  IF Len(strs) = 0 THEN ""
  ELSE IF Len(strs) = 1 THEN strs[1]
  ELSE strs[1] \o sep \o Join(Tail(strs), sep)

\* ------------------------------------------------------------ strings
Char(s, i) == SubSeq(s, i, i)
\* s.slice(i - 1): the rest of s from position i on.
From(s, i) == SubSeq(s, i, Len(s))

LowerLetters == "abcdefghijklmnopqrstuvwxyz"
UpperLetters == "ABCDEFGHIJKLMNOPQRSTUVWXYZ"
Digits == "0123456789"

CharsOf(s) == {Char(s, i) : i \in 1..Len(s)}

\* The regular expression classes \s, \w and ["`] (the inputs hold no backtick).
SpaceChars == {" ", "\t", "\n", "\r", "\f"}
WordChars == CharsOf(LowerLetters) \cup CharsOf(UpperLetters) \cup CharsOf(Digits) \cup {"_"}
QuoteChars == {"\""}

IsSpace(c) == c \in SpaceChars
IsWord(c) == c \in WordChars
IsQuote(c) == c \in QuoteChars

UpperChar(c) ==
  IF c \in CharsOf(LowerLetters)
  THEN Char(UpperLetters, CHOOSE i \in 1..26 : Char(LowerLetters, i) = c)
  ELSE c

LowerChar(c) ==
  IF c \in CharsOf(UpperLetters)
  THEN Char(LowerLetters, CHOOSE i \in 1..26 : Char(UpperLetters, i) = c)
  ELSE c

RECURSIVE MapChars(_, _, _, _)
\* The characters of s at positions lo..hi, each one in the domain of f
\* replaced by its image, concatenated.
MapChars(f, s, lo, hi) ==
  IF lo > hi THEN ""
  ELSE IF lo = hi THEN (IF Char(s, lo) \in DOMAIN f THEN f[Char(s, lo)] ELSE Char(s, lo))
  ELSE LET mid == (lo + hi) \div 2
       IN MapChars(f, s, lo, mid) \o MapChars(f, s, mid + 1, hi)

ToUpperCase(s) == MapChars([c \in CharsOf(LowerLetters) |-> UpperChar(c)], s, 1, Len(s))

ToLowerCase(s) == MapChars([c \in CharsOf(UpperLetters) |-> LowerChar(c)], s, 1, Len(s))

\* s.startsWith(prefix), from position i.
StartsWithAt(s, i, prefix) ==
  i + Len(prefix) - 1 <= Len(s) /\ SubSeq(s, i, i + Len(prefix) - 1) = prefix
StartsWith(s, prefix) == StartsWithAt(s, 1, prefix)
\* A literal of a case-insensitive regular expression (the literal is upper case).
StartsWithAtCI(s, i, prefix) ==
  i + Len(prefix) - 1 <= Len(s) /\ ToUpperCase(SubSeq(s, i, i + Len(prefix) - 1)) = prefix

\* s.includes(sub)
Includes(s, sub) == \E i \in 1..(Len(s) + 1) : StartsWithAt(s, i, sub)

\* The position after the longest run of \s that starts at position i (\s*).
RECURSIVE SkipSpaces(_, _)
SkipSpaces(s, i) ==
  IF i <= Len(s) /\ IsSpace(Char(s, i)) THEN SkipSpaces(s, i + 1) ELSE i

\* The position after the longest run of \w that starts at position i (\w*).
RECURSIVE SkipWord(_, _)
SkipWord(s, i) ==
  IF i <= Len(s) /\ IsWord(Char(s, i)) THEN SkipWord(s, i + 1) ELSE i

\* The position after an optional quote at position i (["`]?).
SkipQuote(s, i) == IF i <= Len(s) /\ IsQuote(Char(s, i)) THEN i + 1 ELSE i

\* The least position j >= i where sub starts, or 0.
IndexOfFrom(s, sub, i) ==
  IF \E j \in i..(Len(s) + 1) : StartsWithAt(s, j, sub)
  THEN CHOOSE j \in i..(Len(s) + 1) :
         /\ StartsWithAt(s, j, sub)
         /\ \A k \in i..(j - 1) : ~StartsWithAt(s, k, sub)
  ELSE 0

\* s.trim()
RECURSIVE TrimEnd(_)
TrimEnd(s) ==
  IF s # "" /\ IsSpace(Char(s, Len(s))) THEN TrimEnd(SubSeq(s, 1, Len(s) - 1)) ELSE s
Trim(s) == TrimEnd(From(s, SkipSpaces(s, 1)))

\* s.split(",")
RECURSIVE Split(_, _)
Split(s, sep) ==
  LET j == IndexOfFrom(s, sep, 1)
  IN IF j = 0 THEN <<s>>
     ELSE <<SubSeq(s, 1, j - 1)>> \o Split(From(s, j + Len(sep)), sep)

\* s.replace(/["`]/g, "")
StripQuotes(s) == MapChars([c \in QuoteChars |-> ""], s, 1, Len(s))

\* s.replace(/\s/g, "")
RemoveSpaces(s) == MapChars([c \in SpaceChars |-> ""], s, 1, Len(s))

\* content.replace(/--[^\n]*/g, ""): each comment runs to the end of its line.
RECURSIVE StripLineComments(_)
StripLineComments(s) ==
  LET open == IndexOfFrom(s, "--", 1)
      nl == IndexOfFrom(s, "\n", open + 2)
  IN IF open = 0 THEN s
     ELSE SubSeq(s, 1, open - 1) \o (IF nl = 0 THEN "" ELSE StripLineComments(From(s, nl)))

\* content.replace(/\/\*[\s\S]*?\*\//g, ""): each comment ends at the first "*/"
\* after its "/*"; a "/*" that nothing closes stays.
RECURSIVE StripBlockComments(_)
StripBlockComments(s) ==
  LET open == IndexOfFrom(s, "/*", 1)
      close == IndexOfFrom(s, "*/", open + 2)
  IN IF open = 0 \/ close = 0 THEN s
     ELSE SubSeq(s, 1, open - 1) \o StripBlockComments(From(s, close + 2))

\* content.replace(/\r\n/g, "\n")
RECURSIVE NormalizeNewlines(_)
NormalizeNewlines(s) ==
  LET crlf == IndexOfFrom(s, "\r\n", 1)
  IN IF crlf = 0 THEN s
     ELSE SubSeq(s, 1, crlf - 1) \o "\n" \o NormalizeNewlines(From(s, crlf + 2))

\* ------------------------------------------------------- diff engine
\* `${c.type}:${c.columns.join(",")}`
ConstraintKey(c) == c.type \o ":" \o Join(c.columns, ",")

ConstraintKeys(constraints) == {ConstraintKey(c) : c \in Range(constraints)}

\* A mutant of ColumnDiffers: the key flags count as well.
ColumnDiffersKeyFlags(oldCol, newCol) ==
  \/ oldCol.type # newCol.type
  \/ oldCol.nullable # newCol.nullable
  \/ oldCol.defaultVal # newCol.defaultVal
  \/ oldCol.primaryKey # newCol.primaryKey
  \/ oldCol.unique # newCol.unique

\* The condition under which a column of both tables is reported as changed.
ColumnDiffers(oldCol, newCol) ==
  \/ oldCol.type # newCol.type
  \/ oldCol.nullable # newCol.nullable
  \/ oldCol.defaultVal # newCol.defaultVal

\* A mutant of IsBreaking: any change of nullable counts.
IsBreakingAnyNullable(oldCol, newCol) ==
  \/ oldCol.type # newCol.type
  \/ oldCol.nullable # newCol.nullable

IsBreaking(oldCol, newCol) ==
  \/ oldCol.type # newCol.type
  \/ (oldCol.nullable /\ ~newCol.nullable)

MakeColumnChange(oldCol, newCol) ==
  [name |-> newCol.name,
   oldType |-> oldCol.type, newType |-> newCol.type,
   oldNullable |-> oldCol.nullable, newNullable |-> newCol.nullable,
   oldDefault |-> oldCol.defaultVal, newDefault |-> newCol.defaultVal,
   breaking |-> IsBreaking(oldCol, newCol)]

AddedColumns(oldTable, newTable) ==
  SelectSeq(newTable.columns, LAMBDA col : ~MapHas(oldTable.columns, col.name))

RemovedColumns(oldTable, newTable) ==
  SelectSeq(oldTable.columns, LAMBDA col : ~MapHas(newTable.columns, col.name))

ChangedColumns(oldTable, newTable) ==
  LET both == SelectSeq(newTable.columns, LAMBDA col :
                /\ MapHas(oldTable.columns, col.name)
                /\ ColumnDiffers(MapGet(oldTable.columns, col.name), col))
  IN [i \in 1..Len(both) |->
        MakeColumnChange(MapGet(oldTable.columns, both[i].name), both[i])]

RECURSIVE AddedConstraintsConsuming(_, _)
\* A mutant of AddedConstraints: a matched key of the old table is used up.
AddedConstraintsConsuming(oldKeys, cons) ==
  IF cons = <<>> THEN <<>>
  ELSE LET key == ConstraintKey(Head(cons))
       IN IF key \in oldKeys
          THEN AddedConstraintsConsuming(oldKeys \ {key}, Tail(cons))
          ELSE <<Head(cons)>> \o AddedConstraintsConsuming(oldKeys, Tail(cons))

AddedConstraintsMultiset(oldTable, newTable) ==
  AddedConstraintsConsuming(ConstraintKeys(oldTable.constraints), newTable.constraints)

AddedConstraints(oldTable, newTable) ==
  SelectSeq(newTable.constraints, LAMBDA con :
    ConstraintKey(con) \notin ConstraintKeys(oldTable.constraints))

RemovedConstraints(oldTable, newTable) ==
  SelectSeq(oldTable.constraints, LAMBDA con :
    ConstraintKey(con) \notin ConstraintKeys(newTable.constraints))

MakeTableDiff(oldTable, newTable) ==
  [name |-> newTable.name,
   addedColumns |-> AddedColumns(oldTable, newTable),
   removedColumns |-> RemovedColumns(oldTable, newTable),
   changedColumns |-> ChangedColumns(oldTable, newTable),
   addedConstraints |-> AddedConstraints(oldTable, newTable),
   removedConstraints |-> RemovedConstraints(oldTable, newTable)]

\* A mutant of TableDiffNonEmpty: only the column lists are looked at.
TableDiffNonEmptyColumnsOnly(t) ==
  \/ Len(t.addedColumns) # 0
  \/ Len(t.removedColumns) # 0
  \/ Len(t.changedColumns) # 0

\* The test of line 308: some change list is non-empty.
TableDiffNonEmpty(t) ==
  \/ Len(t.addedColumns) # 0
  \/ Len(t.removedColumns) # 0
  \/ Len(t.changedColumns) # 0
  \/ Len(t.addedConstraints) # 0
  \/ Len(t.removedConstraints) # 0

diffSchemas(old, new) ==
  LET removedTables == SelectSeq(MapKeys(old.tables), LAMBDA n : ~MapHas(new.tables, n))
      addedTables == SelectSeq(MapKeys(new.tables), LAMBDA n : ~MapHas(old.tables, n))
      common == SelectSeq(new.tables, LAMBDA t : MapHas(old.tables, t.name))
      tableDiffs == [i \in 1..Len(common) |->
                       MakeTableDiff(MapGet(old.tables, common[i].name), common[i])]
  IN [addedTables |-> addedTables,
      removedTables |-> removedTables,
      changedTables |-> SelectSeq(tableDiffs, TableDiffNonEmpty)]

\* A mutant of hasBreakingChanges: removed columns are not looked at.
hasBreakingChangesNoRemovedColumns(d) ==
  \/ Len(d.removedTables) > 0
  \/ \E i \in 1..Len(d.changedTables) :
       \E j \in 1..Len(d.changedTables[i].changedColumns) :
         d.changedTables[i].changedColumns[j].breaking

hasBreakingChanges(d) ==
  \/ Len(d.removedTables) > 0
  \/ \E i \in 1..Len(d.changedTables) :
       \/ Len(d.changedTables[i].removedColumns) > 0
       \/ \E j \in 1..Len(d.changedTables[i].changedColumns) :
            d.changedTables[i].changedColumns[j].breaking

FilterTable(t) ==
  [t EXCEPT !.addedColumns = <<>>,
            !.changedColumns = SelectSeq(t.changedColumns, LAMBDA c : c.breaking),
            !.addedConstraints = <<>>]

\* The test of line 344 on a filtered table.
FilteredTableKept(t) ==
  \/ Len(t.removedColumns) # 0
  \/ Len(t.changedColumns) # 0
  \/ Len(t.removedConstraints) # 0

\* A mutant of filterBreakingOnly: the changed columns are not filtered.
filterBreakingOnlyKeepsChanges(d) ==
  [addedTables |-> <<>>,
   removedTables |-> d.removedTables,
   changedTables |->
     SelectSeq([i \in 1..Len(d.changedTables) |->
                  [d.changedTables[i] EXCEPT !.addedColumns = <<>>,
                                             !.addedConstraints = <<>>]],
               FilteredTableKept)]

\* A mutant of filterBreakingOnly: the removed tables are dropped as well.
filterBreakingOnlyDropsRemovedTables(d) ==
  [addedTables |-> <<>>,
   removedTables |-> <<>>,
   changedTables |->
     SelectSeq([i \in 1..Len(d.changedTables) |-> FilterTable(d.changedTables[i])],
               FilteredTableKept)]

filterBreakingOnly(d) ==
  [addedTables |-> <<>>,
   removedTables |-> d.removedTables,
   changedTables |->
     SelectSeq([i \in 1..Len(d.changedTables) |-> FilterTable(d.changedTables[i])],
               FilteredTableKept)]

\* ------------------------------------------------------- SQL parser
\* The rest of createRegex from the table name on, at position i:
\* ["`]?(\w+)["`]?\s*\(([\s\S]*?)\)\s*;   The lazy body ends before the first
\* ")" that only white space separates from a ";".
CreateRestAt(s, i) ==
  LET q1 == SkipQuote(s, i)
      w == SkipWord(s, q1)
      sp == SkipSpaces(s, SkipQuote(s, w))
      closes == {j \in (sp + 1)..Len(s) :
                   /\ Char(s, j) = ")"
                   /\ SkipSpaces(s, j + 1) <= Len(s)
                   /\ Char(s, SkipSpaces(s, j + 1)) = ";"}
  IN IF w > q1 /\ sp <= Len(s) /\ Char(s, sp) = "(" /\ closes # {}
     THEN LET j == CHOOSE c \in closes : \A d \in closes : c <= d
          IN Some([name |-> SubSeq(s, q1, w - 1),
                   body |-> SubSeq(s, sp + 1, j - 1),
                   end |-> SkipSpaces(s, j + 1) + 1])
     ELSE Null

\* The position after (?:IF\s+NOT\s+EXISTS\s+) at position i, or 0.
IfNotExistsAt(s, i) ==
  LET a == SkipSpaces(s, i + 2)
      b == SkipSpaces(s, a + 3)
      c == SkipSpaces(s, b + 6)
  IN IF /\ StartsWithAtCI(s, i, "IF") /\ a > i + 2
        /\ StartsWithAtCI(s, a, "NOT") /\ b > a + 3
        /\ StartsWithAtCI(s, b, "EXISTS") /\ c > b + 6
     THEN c ELSE 0

\* createRegex matched at position p: CREATE\s+TABLE\s+(?:IF\s+NOT\s+EXISTS\s+)?
\* and the rest; the optional group is tried first and given up if the rest
\* does not match after it.
CreateMatchAt(s, p) ==
  LET a == SkipSpaces(s, p + 6)
      b == SkipSpaces(s, a + 5)
  IN IF /\ StartsWithAtCI(s, p, "CREATE") /\ a > p + 6
        /\ StartsWithAtCI(s, a, "TABLE") /\ b > a + 5
     THEN LET Rest(g, afterGroup) ==
                IF g # 0 /\ afterGroup # Null THEN afterGroup ELSE CreateRestAt(s, b)
          IN Rest(IfNotExistsAt(s, b), CreateRestAt(s, IfNotExistsAt(s, b)))
     ELSE Null

\* createRegex.exec(cleaned) with lastIndex = from - 1: the leftmost match.
CreateExec(s, from) ==
  LET starts == {p \in from..Len(s) : CreateMatchAt(s, p) # Null}
  IN IF starts = {} THEN Null
     ELSE CreateMatchAt(s, CHOOSE p \in starts : \A q \in starts : p <= q)

\* line.match(/\(([^)]+)\)/): the capture of the leftmost match, or Null.
ParenMatch(line) ==
  LET opens == {i \in 1..Len(line) :
                  /\ Char(line, i) = "("
                  /\ i + 1 <= Len(line)
                  /\ Char(line, i + 1) # ")"
                  /\ IndexOfFrom(line, ")", i + 1) # 0}
  IN IF opens = {} THEN Null
     ELSE LET i == CHOOSE o \in opens : \A q \in opens : o <= q
          IN Some(SubSeq(line, i + 1, IndexOfFrom(line, ")", i + 1) - 1))

\* colMatch[1].split(",").map((c) => c.trim().replace(/["`]/g, "").toLowerCase())
ColumnList(capture) ==
  LET parts == Split(capture, ",")
  IN [i \in 1..Len(parts) |-> ToLowerCase(StripQuotes(Trim(parts[i])))]

\* \(([^)]+)\) at position i: [capture, end] or Null.
ParenGroupAt(s, i) ==
  IF /\ i + 1 <= Len(s)
     /\ Char(s, i) = "("
     /\ Char(s, i + 1) # ")"
     /\ IndexOfFrom(s, ")", i + 1) # 0
  THEN Some([capture |-> SubSeq(s, i + 1, IndexOfFrom(s, ")", i + 1) - 1),
             end |-> IndexOfFrom(s, ")", i + 1) + 1])
  ELSE Null

\* The foreign key expression matched at position p:
\* FOREIGN\s+KEY\s*\(([^)]+)\)\s*REFERENCES\s+["`]?(\w+)["`]?\s*\(([^)]+)\)
FkMatchAt(line, p) ==
  LET a == SkipSpaces(line, p + 7)
      b == SkipSpaces(line, a + 3)
      g1 == ParenGroupAt(line, b)
      c == IF g1 = Null THEN 0 ELSE SkipSpaces(line, g1[1].end)
      d == SkipSpaces(line, c + 10)
      q1 == SkipQuote(line, d)
      w == SkipWord(line, q1)
      e == SkipSpaces(line, SkipQuote(line, w))
      g2 == ParenGroupAt(line, e)
  IN IF /\ StartsWithAtCI(line, p, "FOREIGN") /\ a > p + 7
        /\ StartsWithAtCI(line, a, "KEY")
        /\ g1 # Null
        /\ StartsWithAtCI(line, c, "REFERENCES") /\ d > c + 10
        /\ w > q1
        /\ g2 # Null
     THEN Some(<<g1[1].capture, SubSeq(line, q1, w - 1), g2[1].capture>>)
     ELSE Null

\* line.match(/FOREIGN.../i): the captures of the leftmost match, or Null.
FkMatch(line) ==
  LET starts == {p \in 1..Len(line) : FkMatchAt(line, p) # Null}
  IN IF starts = {} THEN Null
     ELSE FkMatchAt(line, CHOOSE p \in starts : \A q \in starts : p <= q)

\* The position after the longest run of [\w() ,] that starts at position i.
RECURSIVE SkipTypeChars(_, _)
SkipTypeChars(s, i) ==
  IF i <= Len(s) /\ (IsWord(Char(s, i)) \/ Char(s, i) \in {"(", ")", " ", ","})
  THEN SkipTypeChars(s, i + 1) ELSE i

\* line.match(/^["`]?(\w+)["`]?\s+(\w[\w() ,]*)/i): the two captures, or Null.
ColMatch(line) ==
  LET q1 == SkipQuote(line, 1)
      w == SkipWord(line, q1)
      q2 == SkipQuote(line, w)
      sp == SkipSpaces(line, q2)
  IN IF w > q1 /\ sp > q2 /\ sp <= Len(line) /\ IsWord(Char(line, sp))
     THEN Some(<<SubSeq(line, q1, w - 1), SubSeq(line, sp, SkipTypeChars(line, sp) - 1)>>)
     ELSE Null

\* The position after the longest run of [^ ,] that starts at position i.
RECURSIVE SkipDefaultToken(_, _)
SkipDefaultToken(s, i) ==
  IF i <= Len(s) /\ Char(s, i) \notin {" ", ","} THEN SkipDefaultToken(s, i + 1) ELSE i

\* Where the capture of DEFAULT\s+([^ ,]+) starts when DEFAULT is at position
\* p, or 0: \s+ takes the longest run of white space that leaves a character
\* other than a space and a comma after it.
DefaultTokenStart(line, p) ==
  LET r == SkipSpaces(line, p + 7)
      cands == {k \in (p + 8)..r : k <= Len(line) /\ Char(line, k) \notin {" ", ","}}
  IN IF StartsWithAtCI(line, p, "DEFAULT") /\ cands # {}
     THEN CHOOSE k \in cands : \A m \in cands : m <= k
     ELSE 0

\* line.match(/DEFAULT\s+([^ ,]+)/i): the capture of the leftmost match, or Null.
DefMatch(line) ==
  LET starts == {p \in 1..Len(line) : DefaultTokenStart(line, p) # 0}
  IN IF starts = {} THEN Null
     ELSE LET p == CHOOSE x \in starts : \A q \in starts : x <= q
              k == DefaultTokenStart(line, p)
          IN Some(SubSeq(line, k, SkipDefaultToken(line, k) - 1))

\* body.split(",").map((l) => l.trim()).filter(Boolean)
BodyLines(body) ==
  LET parts == Split(body, ",")
  IN SelectSeq([i \in 1..Len(parts) |-> Trim(parts[i])], LAMBDA l : l # "")

\* The column a column clause defines, once colMatch has matched.
ParseColumn(line, upper, m) ==
  LET Col(isPK, defMatch) ==
        [name |-> ToLowerCase(m[1]),
         type |-> ToUpperCase(Trim(m[2])),
         nullable |-> ~Includes(upper, "NOT NULL") /\ ~isPK,
         defaultVal |-> IF defMatch # Null THEN Some(defMatch[1]) ELSE Null,
         primaryKey |-> isPK,
         unique |-> Includes(upper, "UNIQUE")]
  IN Col(Includes(upper, "PRIMARY KEY"), DefMatch(line))

\* One pass of the loop over the clauses of a table body: the table with the
\* clause's column or constraint added.
ParseLine(table, line) ==
  LET PrimaryKey(colMatch) ==
        IF colMatch # Null
        THEN [table EXCEPT !.constraints = Append(@,
                [name |-> "pk_" \o table.name,
                 type |-> "PRIMARY KEY",
                 columns |-> ColumnList(colMatch[1]),
                 references |-> Null])]
        ELSE table
      Unique(colMatch) ==
        IF colMatch # Null
        THEN [table EXCEPT !.constraints = Append(@,
                [name |-> "uq_" \o table.name \o "_" \o RemoveSpaces(colMatch[1]),
                 type |-> "UNIQUE",
                 columns |-> ColumnList(colMatch[1]),
                 references |-> Null])]
        ELSE table
      ForeignKey(fkMatch) ==
        IF fkMatch # Null
        THEN [table EXCEPT !.constraints = Append(@,
                [name |-> "fk_" \o table.name \o "_" \o StripQuotes(Trim(fkMatch[1][1])),
                 type |-> "FOREIGN KEY",
                 columns |-> ColumnList(fkMatch[1][1]),
                 references |-> Some(ToLowerCase(fkMatch[1][2]) \o "("
                                       \o ToLowerCase(fkMatch[1][3]) \o ")")])]
        ELSE table
      Column(upper, colMatch) ==
        IF colMatch # Null
        THEN [table EXCEPT !.columns = MapSet(@, ParseColumn(line, upper, colMatch[1]))]
        ELSE table
      Clause(upper) ==
        IF StartsWith(upper, "PRIMARY KEY") THEN PrimaryKey(ParenMatch(line))
        ELSE IF StartsWith(upper, "UNIQUE") THEN Unique(ParenMatch(line))
        ELSE IF StartsWith(upper, "FOREIGN KEY") \/ StartsWith(upper, "CONSTRAINT")
        THEN ForeignKey(FkMatch(line))
        ELSE IF StartsWith(upper, "CHECK") \/ StartsWith(upper, "INDEX") THEN table
        ELSE Column(upper, ColMatch(line))
  IN Clause(Trim(ToUpperCase(line)))

RECURSIVE ParseLines(_, _)
ParseLines(table, lines) ==
  IF lines = <<>> THEN table
  ELSE ParseLines(ParseLine(table, Head(lines)), Tail(lines))

\* The table one CREATE TABLE statement defines.
ParseTable(name, body) ==
  ParseLines([name |-> ToLowerCase(name), columns |-> <<>>, constraints |-> <<>>],
             BodyLines(body))

RECURSIVE ParseStatements(_, _, _)
\* The loop over the matches of createRegex, from position from on.
ParseStatements(cleaned, from, tables) ==
  LET Loop(match) ==
        IF match = Null THEN tables
        ELSE ParseStatements(cleaned, match[1].end,
                             MapSet(tables, ParseTable(match[1].name, match[1].body)))
  IN Loop(CreateExec(cleaned, from))

parseSQL(content) ==
  LET cleaned == NormalizeNewlines(StripBlockComments(StripLineComments(content)))
  IN [tables |-> ParseStatements(cleaned, 1, <<>>)]

\* ------------------------------------------------------ JSON parser
\* A JSON value as JSON.parse returns it: its type t and, by type, the boolean
\* b, the number n, the string s, the array's elements a or the object's
\* entries o (<<key, value>>, in order).
JValue(t, b, n, str, a, o) == [t |-> t, b |-> b, n |-> n, s |-> str, a |-> a, o |-> o]
JNull == JValue("null", FALSE, 0, "", <<>>, <<>>)
JBool(b) == JValue("bool", b, 0, "", <<>>, <<>>)
JNum(n) == JValue("num", FALSE, n, "", <<>>, <<>>)
JStr(str) == JValue("str", FALSE, 0, str, <<>>, <<>>)
JArr(elems) == JValue("arr", FALSE, 0, "", elems, <<>>)
JObj(entries) == JValue("obj", FALSE, 0, "", <<>>, entries)
\* The value of a property that is not there.
Undefined == JValue("undefined", FALSE, 0, "", <<>>, <<>>)

\* x.key for x neither null nor undefined: only an object has own properties
\* of the names the parser reads.
Get(x, key) ==
  IF \E i \in 1..Len(x.o) : x.o[i][1] = key
  THEN x.o[CHOOSE i \in 1..Len(x.o) : x.o[i][1] = key][2]
  ELSE Undefined

\* Reading a property of null or undefined throws a TypeError.
ThrowsOnRead(x) == x.t \in {"null", "undefined"}

\* The truthiness of a value (x || y, x ? y : z, x && y).
Truthy(x) ==
  CASE x.t \in {"null", "undefined"} -> FALSE
    [] x.t = "bool" -> x.b
    [] x.t = "num" -> x.n # 0
    [] x.t = "str" -> x.s # ""
    [] OTHER -> TRUE

RECURSIVE NumToStr(_)
\* String(n) of a natural number.
NumToStr(n) ==
  IF n < 10 THEN Char(Digits, n + 1)
  ELSE NumToStr(n \div 10) \o Char(Digits, (n % 10) + 1)

RECURSIVE JSString(_)
\* String(x); an array is its elements joined by ",", a null element empty.
JSString(x) ==
  CASE x.t = "str" -> x.s
    [] x.t = "num" -> NumToStr(x.n)
    [] x.t = "bool" -> IF x.b THEN "true" ELSE "false"
    [] x.t = "null" -> "null"
    [] x.t = "undefined" -> "undefined"
    [] x.t = "arr" ->
         Join([i \in 1..Len(x.a) |->
                 IF x.a[i].t \in {"null", "undefined"} THEN "" ELSE JSString(x.a[i])], ",")
    [] OTHER -> "[object Object]"

\* The string Array.prototype.join renders an element as.
JoinElement(x) == IF x.t \in {"null", "undefined"} THEN "" ELSE JSString(x)

\* Object.entries(x) for x neither null nor undefined.  (An object's keys that
\* are array indices would come first, in ascending order; the inputs hold
\* none.)
Entries(x) ==
  CASE x.t = "obj" -> x.o
    [] x.t = "arr" -> [i \in 1..Len(x.a) |-> <<NumToStr(i - 1), x.a[i]>>]
    [] x.t = "str" -> [i \in 1..Len(x.s) |-> <<NumToStr(i - 1), JStr(Char(x.s, i))>>]
    [] OTHER -> <<>>

\* json.tables || json
TableSource(json) == IF Truthy(Get(json, "tables")) THEN Get(json, "tables") ELSE json

\* def.columns && typeof def.columns === "object"
HasColumns(def) == Truthy(Get(def, "columns")) /\ Get(def, "columns").t \in {"obj", "arr"}

\* Array.isArray(def.constraints)
HasConstraints(def) == Get(def, "constraints").t = "arr"

JsonColumn(colName, col) ==
  [name |-> ToLowerCase(colName),
   type |-> ToUpperCase(IF Get(col, "type").t = "str" THEN Get(col, "type").s ELSE "TEXT"),
   nullable |-> ~(Get(col, "nullable").t = "bool" /\ Get(col, "nullable").b = FALSE),
   defaultVal |-> IF Get(col, "default").t \notin {"null", "undefined"}
                  THEN Some(JSString(Get(col, "default"))) ELSE Null,
   primaryKey |-> Get(col, "primaryKey").t = "bool" /\ Get(col, "primaryKey").b = TRUE,
   unique |-> Get(col, "unique").t = "bool" /\ Get(col, "unique").b = TRUE]

\* A constraint entry.  columns stays the array of the input, kept here as the
\* strings join(",") renders its elements as (a string element is itself).
JsonConstraint(c) ==
  [name |-> IF Truthy(Get(c, "name")) THEN JSString(Get(c, "name")) ELSE "",
   type |-> IF Truthy(Get(c, "type")) THEN JSString(Get(c, "type")) ELSE "",
   columns |-> IF Get(c, "columns").t = "arr"
               THEN [i \in 1..Len(Get(c, "columns").a) |-> JoinElement(Get(c, "columns").a[i])]
               ELSE <<>>,
   references |-> IF Truthy(Get(c, "references"))
                  THEN Some(JSString(Get(c, "references"))) ELSE Null]

RECURSIVE JsonColumns(_, _)
\* The loop over Object.entries(def.columns).
JsonColumns(entries, columns) ==
  IF entries = <<>> THEN columns
  ELSE JsonColumns(Tail(entries), MapSet(columns, JsonColumn(Head(entries)[1], Head(entries)[2])))

JsonTable(tableName, def) ==
  [name |-> ToLowerCase(tableName),
   columns |-> IF HasColumns(def)
               THEN JsonColumns(Entries(Get(def, "columns")), <<>>) ELSE <<>>,
   constraints |-> IF HasConstraints(def)
                   THEN [i \in 1..Len(Get(def, "constraints").a) |->
                           JsonConstraint(Get(def, "constraints").a[i])]
                   ELSE <<>>]

RECURSIVE JsonTables(_, _)
\* The loop over Object.entries(tableSource).
JsonTables(entries, tables) ==
  IF entries = <<>> THEN tables
  ELSE JsonTables(Tail(entries), MapSet(tables, JsonTable(Head(entries)[1], Head(entries)[2])))

\* Some property read of the loop over one table definition throws: def.columns
\* of a null def, col.type of a null column definition, c.name of a null
\* constraint entry.
TableThrows(def) ==
  \/ ThrowsOnRead(def)
  \/ /\ HasColumns(def)
     /\ \E i \in 1..Len(Entries(Get(def, "columns"))) :
          ThrowsOnRead(Entries(Get(def, "columns"))[i][2])
  \/ /\ HasConstraints(def)
     /\ \E i \in 1..Len(Get(def, "constraints").a) :
          ThrowsOnRead(Get(def, "constraints").a[i])

\* parseJSONSchema throws a TypeError: json.tables of a null root, or a read
\* inside the loop over the tables.
JsonThrows(json) ==
  \/ ThrowsOnRead(json)
  \/ \E i \in 1..Len(Entries(TableSource(json))) :
       TableThrows(Entries(TableSource(json))[i][2])

\* parseJSONSchema(content), where parsed is what JSON.parse makes of content:
\* a SyntaxError if it is not well-formed JSON, else the value it denotes.
parseJSONSchema(parsed) ==
  IF ~parsed.wellFormed THEN [ok |-> FALSE, error |-> "SyntaxError", schema |-> [tables |-> <<>>]]
  ELSE IF JsonThrows(parsed.value)
       THEN [ok |-> FALSE, error |-> "TypeError", schema |-> [tables |-> <<>>]]
       ELSE [ok |-> TRUE, error |-> "",
             schema |-> [tables |-> JsonTables(Entries(TableSource(parsed.value)), <<>>)]]

\* parseFile, after readFileSync: the extension picks the parser.
parseFile(file) ==
  IF ToLowerCase(file.ext) = ".json"
  THEN parseJSONSchema(file.json)
  ELSE [ok |-> TRUE, error |-> "", schema |-> parseSQL(file.text)]

\* ------------------------------------------------------------- inputs
TableNames == {"users", "orders"}

Types == {"INTEGER", "TEXT"}
Defaults == {Null, Some("0")}

\* In table users, column id takes every type, nullability and default and
\* column email every default; in table orders, column id differs only
\* in its primaryKey and unique flags.
ColumnInputs(table) ==
  IF table = "users"
  THEN {[name |-> "id", type |-> t, nullable |-> n, defaultVal |-> d,
         primaryKey |-> FALSE, unique |-> FALSE] :
          t \in Types, n \in BOOLEAN, d \in Defaults}
       \cup
       {[name |-> "email", type |-> "TEXT", nullable |-> TRUE, defaultVal |-> d,
         primaryKey |-> FALSE, unique |-> FALSE] : d \in Defaults}
  ELSE {[name |-> "id", type |-> "INTEGER", nullable |-> TRUE, defaultVal |-> Null,
         primaryKey |-> f[1], unique |-> f[2]] :
          f \in {<<FALSE, FALSE>>, <<TRUE, FALSE>>, <<FALSE, TRUE>>}}

ConstraintInputs(table) ==
  IF table = "users"
  THEN {[name |-> "uq_users_id,email", type |-> "UNIQUE",
         columns |-> <<"id", "email">>, references |-> Null],
        [name |-> "uq_users_email,id", type |-> "UNIQUE",
         columns |-> <<"email", "id">>, references |-> Null]}
  ELSE {[name |-> "pk_orders", type |-> "PRIMARY KEY",
         columns |-> <<"id">>, references |-> Null]}

DistinctNames(s) == \A i, j \in 1..Len(s) : s[i].name = s[j].name => i = j

Weight(body) == Len(body.columns) + Len(body.constraints)

\* The column maps and constraint lists of a table of this name that hold at
\* most n entries together.
TableBodies(table, n) ==
  {b \in {[columns |-> cols, constraints |-> cons] :
            cols \in {c \in SeqsUpTo(ColumnInputs(table), n) : DistinctNames(c)},
            cons \in SeqsUpTo(ConstraintInputs(table), n)} :
     Weight(b) <= n}

RECURSIVE TablesNamed(_, _)
\* The table maps whose keys are names, in this order, holding at most budget
\* columns and constraints in all.
TablesNamed(names, budget) ==
  IF names = <<>> THEN {<<>>}
  ELSE UNION {
         {<<[name |-> Head(names), columns |-> b.columns, constraints |-> b.constraints]>> \o rest :
            rest \in TablesNamed(Tail(names), budget - Weight(b))} :
         b \in TableBodies(Head(names), budget)}

SchemaInputs ==
  {[tables |-> ts] :
     ts \in UNION {TablesNamed(names, MaxItems) :
                     names \in {s \in SeqsUpTo(TableNames, MaxTables) :
                                  \A i, j \in 1..Len(s) : s[i] = s[j] => i = j}}}

\* -------------------------------------------------------- input files
\* A clause of a CREATE TABLE body, as the author of the file means it.
ColumnClause(name, type, mods) ==
  [kind |-> "column", name |-> name, type |-> type, mods |-> mods,
   cols |-> <<>>, refTable |-> "", refCols |-> <<>>]
PrimaryKeyClause(cols) ==
  [kind |-> "pk", name |-> "", type |-> "", mods |-> <<>>,
   cols |-> cols, refTable |-> "", refCols |-> <<>>]
UniqueClause(cols) ==
  [kind |-> "unique", name |-> "", type |-> "", mods |-> <<>>,
   cols |-> cols, refTable |-> "", refCols |-> <<>>]
ForeignKeyClause(cols, refTable, refCols) ==
  [kind |-> "fk", name |-> "", type |-> "", mods |-> <<>>,
   cols |-> cols, refTable |-> refTable, refCols |-> refCols]

ColumnClauses ==
  {ColumnClause("id", "INTEGER", <<>>),
   ColumnClause("id", "INTEGER", <<"DEFAULT 0">>),
   ColumnClause("id", "INTEGER", <<"DEFAULT 1">>),
   ColumnClause("Email", "text", <<>>),
   ColumnClause("Email", "text", <<"NOT NULL">>)}

ConstraintClauses ==
  {PrimaryKeyClause(<<"id">>),
   PrimaryKeyClause(<<"id", "Email">>),
   UniqueClause(<<"Email", "id">>),
   ForeignKeyClause(<<"id">>, "Orders", <<"Id">>)}

\* The text of a clause.
RenderClause(c) ==
  CASE c.kind = "column" ->
         c.name \o " " \o c.type \o Join([i \in 1..Len(c.mods) |-> " " \o c.mods[i]], "")
    [] c.kind = "pk" -> "PRIMARY KEY (" \o Join(c.cols, ", ") \o ")"
    [] c.kind = "unique" -> "UNIQUE (" \o Join(c.cols, ", ") \o ")"
    [] OTHER -> "FOREIGN KEY (" \o Join(c.cols, ", ") \o ") REFERENCES "
                  \o c.refTable \o "(" \o Join(c.refCols, ", ") \o ")"

\* The text of a file that declares one table with these clauses: on one line
\* (plain), or with comments, lower-case keywords, IF NOT EXISTS, a quoted
\* name, one clause a line, CRLF line ends and a second statement.
RenderSql(decl) ==
  LET clauses == [i \in 1..Len(decl.clauses) |-> RenderClause(decl.clauses[i])]
  IN IF decl.style = "plain"
     THEN "CREATE TABLE " \o decl.table \o " (" \o Join(clauses, ", ") \o ");"
     ELSE "-- CREATE TABLE " \o decl.table \o " (x INT);\n/* v2 */\n"
            \o "create table if not exists \"" \o decl.table \o "\" (\r\n  "
            \o Join(clauses, ",\r\n  ") \o "\r\n);\nCREATE TABLE audit (id INT);"

\* The clause lists of at most MaxClauses clauses: columns of distinct names
\* first, constraints after them.
ClauseLists ==
  {cols \o cons :
     cols \in {c \in SeqsUpTo(ColumnClauses, MaxClauses) :
                 /\ DistinctNames(c)
                 /\ \A i, j \in 1..Len(c) : (i < j) => (c[i].name = "id" /\ c[j].name = "Email")},
     cons \in {c \in SeqsUpTo(ConstraintClauses, MaxClauses) : Len(c) <= 1}}

SqlDecls ==
  {[style |-> "plain", table |-> "users", clauses |-> cl] :
     cl \in {c \in ClauseLists : Len(c) <= MaxClauses}}
  \cup
  {[style |-> "commented", table |-> "Users", clauses |-> cl] :
     cl \in {c \in ClauseLists : Len(c) <= MaxClauses - 1}}

NoDecl == [style |-> "", table |-> "", clauses |-> <<>>]

NotJson == [wellFormed |-> FALSE, value |-> JNull]

\* A file: its extension, its text (kept for the SQL files), what JSON.parse
\* makes of the text, and for a generated SQL file the declaration it renders.
SqlFiles == {[ext |-> ".sql", text |-> RenderSql(d), json |-> NotJson, decl |-> d] : d \in SqlDecls}

\* The values of the input .json files.
IdColumn(name, type) == <<name, JObj(<<<<"type", JStr(type)>>>>)>>
JsonUsers(table, id, email) ==
  JObj(<<<<"tables", JObj(<<<<table, JObj(<<
     <<"columns", JObj(<<IdColumn(id, "integer"),
                         <<email, JObj(<<<<"type", JStr("text")>>,
                                         <<"nullable", JBool(FALSE)>>>>)>>>>)>>,
     <<"constraints", JArr(<<JObj(<<<<"name", JStr("pk_users")>>,
                                    <<"type", JStr("PRIMARY KEY")>>,
                                    <<"columns", JArr(<<JStr(id)>>)>>>>)>>)>>>>)>>>>)>>>>)

JsonValues ==
  {JNull, JNum(5), JStr("ab"), JArr(<<JNull>>),
   JObj(<<<<"users", JNull>>>>),
   JObj(<<<<"users", JObj(<<<<"columns", JObj(<<<<"id", JNull>>>>)>>>>)>>>>),
   JObj(<<<<"users", JObj(<<<<"constraints", JArr(<<JNull>>)>>>>)>>>>),
   JObj(<<<<"users", JObj(<<>>)>>>>),
   JObj(<<<<"users", JObj(<<<<"columns", JObj(<<<<"id", JObj(<<>>)>>>>)>>>>)>>>>),
   JObj(<<<<"users", JObj(<<<<"columns", JObj(<<
      <<"id", JObj(<<<<"type", JStr("INTEGER")>>, <<"default", JNum(0)>>>>)>>>>)>>>>)>>>>),
   JObj(<<<<"USERS", JObj(<<
      <<"columns", JArr(<<JObj(<<<<"type", JStr("int")>>>>)>>)>>,
      <<"constraints", JArr(<<JObj(<<<<"columns", JArr(<<JNum(1), JNull, JStr("A")>>)>>>>),
                              JNum(7)>>)>>>>)>>>>),
   JsonUsers("Users", "Id", "Email"),
   JsonUsers("users", "id", "email")}

\* The .json files: a well-formed one for each value, and one that holds SQL.
JsonFiles ==
  {[ext |-> ".json", text |-> "", json |-> [wellFormed |-> TRUE, value |-> v], decl |-> NoDecl] :
     v \in JsonValues}
  \cup
  {[ext |-> ".json", text |-> RenderSql(d), json |-> NotJson, decl |-> NoDecl] :
     d \in {[style |-> "plain", table |-> "users", clauses |-> <<>>]}}

FileInputs == SqlFiles \cup JsonFiles

\* parseFile on each input file: what it returns, or the exception it throws.
Parsed == [f \in FileInputs |-> parseFile(f)]

\* ------------------------------------------------------------- main()
NoFile == [ext |-> "", text |-> "", json |-> NotJson, decl |-> NoDecl]
EmptySchema == [tables |-> <<>>]
EmptyDiff == [addedTables |-> <<>>, removedTables |-> <<>>, changedTables |-> <<>>]
NoError == [kind |-> "none", file |-> "none"]

\* Both files are parsed: the schemas are any two of the input schemas.
InitDiff ==
  /\ pc = "parsed"
  /\ oldFile = NoFile
  /\ newFile = NoFile
  /\ oldSchema \in SchemaInputs
  /\ newSchema \in SchemaInputs
  /\ diff = EmptyDiff
  /\ breakingOnly \in BOOLEAN
  /\ breaking = FALSE
  /\ err = NoError

\* main is about to parse two of the input files.
InitParse ==
  /\ pc = "start"
  /\ oldFile \in FileInputs
  /\ newFile \in FileInputs
  /\ oldSchema = EmptySchema
  /\ newSchema = EmptySchema
  /\ diff = EmptyDiff
  /\ breakingOnly \in BOOLEAN
  /\ breaking = FALSE
  /\ err = NoError

\* const oldSchema = parseFile(oldFile); an exception ends main with exit code 1.
ParseOld ==
  /\ pc = "start"
  /\ \E r \in {Parsed[oldFile]} :
        /\ oldSchema' = IF r.ok THEN r.schema ELSE oldSchema
        /\ err' = IF r.ok THEN err ELSE [kind |-> r.error, file |-> "old"]
        /\ pc' = IF r.ok THEN "parsedOld" ELSE "error"
  /\ UNCHANGED <<oldFile, newFile, newSchema, diff, breakingOnly, breaking>>

\* const newSchema = parseFile(newFile)
ParseNew ==
  /\ pc = "parsedOld"
  /\ \E r \in {Parsed[newFile]} :
        /\ newSchema' = IF r.ok THEN r.schema ELSE newSchema
        /\ err' = IF r.ok THEN err ELSE [kind |-> r.error, file |-> "new"]
        /\ pc' = IF r.ok THEN "parsed" ELSE "error"
  /\ UNCHANGED <<oldFile, newFile, oldSchema, diff, breakingOnly, breaking>>

\* let diff = diffSchemas(oldSchema, newSchema)
DiffSchemas ==
  /\ pc = "parsed"
  /\ diff' = diffSchemas(oldSchema, newSchema)
  /\ pc' = IF breakingOnly THEN "filter" ELSE "format"
  /\ UNCHANGED <<oldFile, newFile, oldSchema, newSchema, breakingOnly, breaking, err>>

\* if (flags.breakingOnly) diff = filterBreakingOnly(diff)
FilterBreakingOnly ==
  /\ pc = "filter"
  /\ diff' = filterBreakingOnly(diff)
  /\ pc' = "format"
  /\ UNCHANGED <<oldFile, newFile, oldSchema, newSchema, breakingOnly, breaking, err>>

\* The formatters' first step: const breaking = hasBreakingChanges(diff)
Format ==
  /\ pc = "format"
  /\ breaking' = hasBreakingChanges(diff)
  /\ pc' = "done"
  /\ UNCHANGED <<oldFile, newFile, oldSchema, newSchema, diff, breakingOnly, err>>

NextDiff == DiffSchemas \/ FilterBreakingOnly \/ Format

NextParse == ParseOld \/ ParseNew \/ DiffSchemas \/ FilterBreakingOnly \/ Format

\* The diff engine on every pair of input schemas.
Spec == InitDiff /\ [][NextDiff]_vars

\* main on every pair of input files.
SpecParse == InitParse /\ [][NextParse]_vars

\* ------------------------------------------------------------- claims
\* diff holds the value diffSchemas returned (no filter has run on it yet).
DiffReady == pc = "filter" \/ (pc = "format" /\ ~breakingOnly)
\* diff holds the value filterBreakingOnly returned.
Filtered == pc = "format" /\ breakingOnly

TableNamed(schema, n) == MapGet(schema.tables, n)
InBoth(n) == MapHas(oldSchema.tables, n) /\ MapHas(newSchema.tables, n)
HasBreakingChange(td) == \E cc \in Range(td.changedColumns) : cc.breaking

\* C1: every ColumnChange diffSchemas emits for a column of a table of both
\* schemas has breaking = TRUE exactly when the column's type differs or its
\* nullable went from TRUE to FALSE; so a change of the default only, or of
\* nullable from FALSE to TRUE only, is not breaking.
C1_BreakingIffTypeOrNarrowing ==
  DiffReady =>
    \A td \in Range(diff.changedTables) : \A cc \in Range(td.changedColumns) :
      /\ InBoth(td.name)
      /\ MapHas(TableNamed(oldSchema, td.name).columns, cc.name)
      /\ MapHas(TableNamed(newSchema, td.name).columns, cc.name)
      /\ LET oldCol == MapGet(TableNamed(oldSchema, td.name).columns, cc.name)
             newCol == MapGet(TableNamed(newSchema, td.name).columns, cc.name)
         IN /\ cc.breaking <=> (oldCol.type # newCol.type
                                  \/ (oldCol.nullable = TRUE /\ newCol.nullable = FALSE))
            /\ (oldCol.type = newCol.type /\ oldCol.nullable = newCol.nullable)
                 => ~cc.breaking
            /\ (oldCol.type = newCol.type /\ ~oldCol.nullable /\ newCol.nullable)
                 => ~cc.breaking

\* C1's case: a narrowing of nullable with the type unchanged, reported as
\* breaking.
C1_Witness ==
  /\ DiffReady
  /\ \E td \in Range(diff.changedTables) : \E cc \in Range(td.changedColumns) :
       cc.breaking /\ cc.oldType = cc.newType /\ cc.oldNullable /\ ~cc.newNullable

\* C2: the verdict of hasBreakingChanges is TRUE exactly when the diff has a
\* removed table, or a changed table with a removed column, or a changed table
\* with a breaking column change.
C2_HasBreakingIff ==
  pc = "done" =>
    (breaking <=> (\/ diff.removedTables # <<>>
                   \/ \E td \in Range(diff.changedTables) : td.removedColumns # <<>>
                   \/ \E td \in Range(diff.changedTables) : HasBreakingChange(td)))

\* C2's case: a diff of added tables, added columns, removed constraints and
\* non-breaking column changes only, judged not breaking.
C2_Witness ==
  /\ pc = "done"
  /\ ~breaking
  /\ diff.addedTables # <<>>
  /\ \E td \in Range(diff.changedTables) :
       /\ td.removedConstraints # <<>>
       /\ td.addedColumns # <<>>
       /\ td.changedColumns # <<>>

\* The position in d.changedTables of the entry for table n.
IndexOfTable(d, n) == CHOOSE i \in 1..Len(d.changedTables) : d.changedTables[i].name = n

\* C3: filterBreakingOnly(d) has no added tables, d's removed tables, and for
\* each changed table of d with a removed column, a breaking column change or
\* a removed constraint (and for no other) one entry: the same removed columns
\* and removed constraints, the breaking column changes in their order, no
\* added columns or constraints; the entries keep their relative order.
C3_FilterKeepsBreakingOnly ==
  Filtered =>
    LET d == diffSchemas(oldSchema, newSchema)
        kept(t) == \/ t.removedColumns # <<>>
                   \/ HasBreakingChange(t)
                   \/ t.removedConstraints # <<>>
    IN /\ diff.addedTables = <<>>
       /\ diff.removedTables = d.removedTables
       /\ \A t \in Range(d.changedTables) :
            kept(t) <=> \E f \in Range(diff.changedTables) : f.name = t.name
       /\ \A f \in Range(diff.changedTables) :
            \E t \in Range(d.changedTables) :
              /\ t.name = f.name
              /\ f.removedColumns = t.removedColumns
              /\ f.removedConstraints = t.removedConstraints
              /\ f.addedColumns = <<>>
              /\ f.addedConstraints = <<>>
              /\ \A cc \in Range(f.changedColumns) : cc.breaking
              /\ \A cc \in Range(t.changedColumns) :
                   cc.breaking <=> cc \in Range(f.changedColumns)
              /\ Len(f.changedColumns) = Cardinality({j \in 1..Len(t.changedColumns) :
                                                       t.changedColumns[j].breaking})
       /\ \A i, j \in 1..Len(diff.changedTables) :
            i < j => IndexOfTable(d, diff.changedTables[i].name)
                       < IndexOfTable(d, diff.changedTables[j].name)

\* C3's case: a changed table with a breaking and a non-breaking column change
\* of which the filter keeps the breaking one.
C3_Witness ==
  /\ Filtered
  /\ \E t \in Range(diffSchemas(oldSchema, newSchema).changedTables) :
       /\ Len(t.changedColumns) = 2
       /\ \E f \in Range(diff.changedTables) :
            f.name = t.name /\ Len(f.changedColumns) = 1

\* C4: every table entry filterBreakingOnly keeps holds a removed column or a
\* breaking column change; so a filtered diff with a removed table or a
\* changed table comes from a diff that hasBreakingChanges judges breaking.
C4_FilteredIsBreaking ==
  Filtered =>
    /\ \A f \in Range(diff.changedTables) :
         f.removedColumns # <<>> \/ HasBreakingChange(f)
    /\ (diff.removedTables # <<>> \/ diff.changedTables # <<>>)
         => hasBreakingChanges(diffSchemas(oldSchema, newSchema))

\* C5: the diff of a schema with itself is empty.
C5_SelfDiffEmpty ==
  (DiffReady /\ oldSchema = newSchema) =>
    /\ diff.addedTables = <<>>
    /\ diff.removedTables = <<>>
    /\ diff.changedTables = <<>>

\* C5's case: a schema diffed with itself that has a table holding two
\* constraints of the same type and column list.
C5_Witness ==
  /\ DiffReady
  /\ oldSchema = newSchema
  /\ \E t \in Range(oldSchema.tables) :
       /\ \E i, j \in 1..Len(t.constraints) :
            /\ i # j
            /\ t.constraints[i].type = t.constraints[j].type
            /\ t.constraints[i].columns = t.constraints[j].columns

\* C6: a constraint the old and the new table both hold with the same type and
\* the same column names in another order is reported neither as added nor as
\* removed.
C6_ColumnOrderInsignificant ==
  DiffReady =>
    \A n \in TableNames : InBoth(n) =>
      \A co \in Range(TableNamed(oldSchema, n).constraints) :
        \A cn \in Range(TableNamed(newSchema, n).constraints) :
          (/\ co.type = cn.type
           /\ Len(co.columns) = Len(cn.columns)
           /\ Range(co.columns) = Range(cn.columns)
           /\ co.columns # cn.columns)
          => \A td \in Range(diff.changedTables) :
               td.name = n => /\ cn \notin Range(td.addedConstraints)
                              /\ co \notin Range(td.removedConstraints)

\* parseFile has returned the schema of the old file, of the new file.
OldParsed == pc \notin {"start", "error"} \/ (pc = "error" /\ err.file = "new")
NewParsed == pc \in {"parsed", "filter", "format", "done"}

\* The file whose parse raised the error main reports.
FailedFile == IF err.file = "old" THEN oldFile ELSE newFile

\* C7: parseJSONSchema raises an error only when its input text is not
\* well-formed JSON; a well-formed text of any structure (a null root, a null
\* table definition, a null column definition, a null constraints entry)
\* parses to a schema and raises nothing.
C7_OnlyMalformedJsonRaises ==
  (pc = "error" /\ FailedFile.ext = ".json") => ~FailedFile.json.wellFormed

IsLowerCase(s) == s = ToLowerCase(s)

\* Every table name, column name and constraint column name of the schema is
\* lower-case.
NamesLowerCase(schema) ==
  \A t \in Range(schema.tables) :
    /\ IsLowerCase(t.name)
    /\ \A c \in Range(t.columns) : IsLowerCase(c.name)
    /\ \A k \in Range(t.constraints) : \A n \in Range(k.columns) : IsLowerCase(n)

\* C8: in every schema parseSQL or parseJSONSchema returns, every table name,
\* every column name and every column name listed inside a constraint is
\* lower-case, whatever the letter case of the input.
C8_NamesLowerCase ==
  /\ OldParsed => NamesLowerCase(oldSchema)
  /\ NewParsed => NamesLowerCase(newSchema)

\* The column clauses of the table a generated SQL file declares.
ColumnClausesOf(file) == {c \in Range(file.decl.clauses) : c.kind = "column"}

\* The table parseSQL made of the table the file declares, in a sequence (empty
\* if it made none).
DeclaredTable(file, schema) ==
  SelectSeq(schema.tables, LAMBDA t : t.name = ToLowerCase(file.decl.table))

\* The types parseSQL gave the column that clause c of the file declares.
TypesOf(file, schema, c) ==
  {col.type : col \in {x \in UNION {Range(t.columns) : t \in Range(DeclaredTable(file, schema))} :
                         x.name = ToLowerCase(c.name)}}

\* C9: for a column clause <name> <type> followed by modifiers, parseSQL sets
\* the column's type to the upper-cased type tokens before the first modifier
\* and nothing else, so two clauses for the same column that differ only in
\* their modifiers parse to the same type.
C9_TypeIsTokensBeforeModifiers ==
  /\ OldParsed =>
       \A c \in ColumnClausesOf(oldFile) : TypesOf(oldFile, oldSchema, c) = {ToUpperCase(c.type)}
  /\ NewParsed =>
       /\ \A c \in ColumnClausesOf(newFile) : TypesOf(newFile, newSchema, c) = {ToUpperCase(c.type)}
       /\ \A c \in ColumnClausesOf(oldFile) : \A d \in ColumnClausesOf(newFile) :
            (c.name = d.name /\ c.type = d.type)
              => TypesOf(oldFile, oldSchema, c) = TypesOf(newFile, newSchema, d)

\* The constraint a table-level clause of a table means: its type, its name
\* where the parser fixes one, and its columns trimmed, quote-stripped and
\* lower-cased.
ClauseType(c) ==
  CASE c.kind = "pk" -> "PRIMARY KEY" [] c.kind = "unique" -> "UNIQUE" [] OTHER -> "FOREIGN KEY"
ClauseColumns(c) == [i \in 1..Len(c.cols) |-> ToLowerCase(StripQuotes(Trim(c.cols[i])))]

\* The constraints of the clause's type that parseSQL gave the declared table.
ConstraintsOf(file, schema, c) ==
  UNION {{i \in 1..Len(t.constraints) : t.constraints[i].type = ClauseType(c)} :
           t \in Range(DeclaredTable(file, schema))}

\* parseSQL made exactly one constraint of the table-level clause c, with the
\* clause's columns in order (and the name pk_<table> for a primary key).
ClauseParsed(file, schema, c) ==
  /\ Len(DeclaredTable(file, schema)) = 1
  /\ Cardinality(ConstraintsOf(file, schema, c)) = 1
  /\ \A i \in ConstraintsOf(file, schema, c) :
       LET k == DeclaredTable(file, schema)[1].constraints[i]
       IN /\ k.columns = ClauseColumns(c)
          /\ (c.kind = "pk") => (k.name = "pk_" \o ToLowerCase(file.decl.table))

\* C10: for every CREATE TABLE body with a table-level clause PRIMARY KEY
\* (c1, ..., cn), n >= 1, parseSQL adds to the table exactly one PRIMARY KEY
\* constraint named pk_<table> with the columns c1..cn in order; the comma
\* split of the body loses nothing of the list when n >= 2 (likewise for
\* UNIQUE (...) and FOREIGN KEY (...) REFERENCES t(...)).
C10_TableConstraintParsed ==
  /\ OldParsed =>
       \A c \in Range(oldFile.decl.clauses) :
         c.kind # "column" => ClauseParsed(oldFile, oldSchema, c)
  /\ NewParsed =>
       \A c \in Range(newFile.decl.clauses) :
         c.kind # "column" => ClauseParsed(newFile, newSchema, c)

\* diff holds the value diffSchemas returned and the filter is about to run on
\* it; the diff of every pair of input schemas comes by here.
BeforeFilter == pc = "filter"

\* Some of the five change lists of the entry is non-empty.
SomeListNonEmpty(td) ==
  \/ td.addedColumns # <<>>
  \/ td.removedColumns # <<>>
  \/ td.changedColumns # <<>>
  \/ td.addedConstraints # <<>>
  \/ td.removedConstraints # <<>>

\* The old and the new table of this name differ in a column (added, removed,
\* or of another type, nullability or default) or in a constraint key.
TablesDiffer(n) ==
  LET oldTable == TableNamed(oldSchema, n)
      newTable == TableNamed(newSchema, n)
      oldNames == {c.name : c \in Range(oldTable.columns)}
      newNames == {c.name : c \in Range(newTable.columns)}
  IN \/ oldNames # newNames
     \/ \E co \in Range(oldTable.columns) : \E cn \in Range(newTable.columns) :
          /\ co.name = cn.name
          /\ (co.type # cn.type \/ co.nullable # cn.nullable \/ co.defaultVal # cn.defaultVal)
     \/ ConstraintKeys(oldTable.constraints) # ConstraintKeys(newTable.constraints)

\* C11: no diff that diffSchemas returns, filtered by filterBreakingOnly any
\* number of times or not at all, has a changedTables entry whose five change
\* lists are all empty; and diffSchemas emits an entry for a table of both
\* schemas exactly when one of the five lists is non-empty, that is when the
\* two tables differ.
C11_NoEmptyTableDiff ==
  /\ (DiffReady \/ Filtered) =>
       \A td \in Range(diff.changedTables) : SomeListNonEmpty(td)
  /\ BeforeFilter =>
       /\ \E once \in {filterBreakingOnly(diff)} :
            /\ \A td \in Range(once.changedTables) : SomeListNonEmpty(td)
            /\ \A td \in Range(filterBreakingOnly(once).changedTables) : SomeListNonEmpty(td)
       /\ \A td \in Range(diff.changedTables) : InBoth(td.name)
       /\ \A i, j \in 1..Len(diff.changedTables) :
            diff.changedTables[i].name = diff.changedTables[j].name => i = j
       /\ \A n \in TableNames : InBoth(n) =>
            ((\E td \in Range(diff.changedTables) : td.name = n) <=> TablesDiffer(n))

\* C11's case: after the filter, a diff that holds an entry for one table of
\* both schemas and none for another, whose columns differ in a key flag only.
C11_Witness ==
  /\ Filtered
  /\ diff.changedTables # <<>>
  /\ \E n \in TableNames :
       /\ InBoth(n)
       /\ TableNamed(oldSchema, n) # TableNamed(newSchema, n)
       /\ ~TablesDiffer(n)
       /\ \A td \in Range(diff.changedTables) : td.name # n

\* The entry of the diff for table n, in a sequence (empty if there is none).
EntriesFor(n) == SelectSeq(diff.changedTables, LAMBDA td : td.name = n)

\* The names in the three column lists of the entry for n.
AddedNames(n) == UNION {{c.name : c \in Range(td.addedColumns)} : td \in Range(EntriesFor(n))}
RemovedNames(n) == UNION {{c.name : c \in Range(td.removedColumns)} : td \in Range(EntriesFor(n))}
ChangedNames(n) == UNION {{c.name : c \in Range(td.changedColumns)} : td \in Range(EntriesFor(n))}

\* No two elements of the list have the same name.
NoNameTwice(list) == \A i, j \in 1..Len(list) : list[i].name = list[j].name => i = j

\* C12: for a table of both schemas, a column name is in addedColumns exactly
\* when only the new table has it, in removedColumns exactly when only the old
\* table has it, in changedColumns exactly when both have it and type, nullable
\* or defaultVal differ; a name is in at most one of the lists, a column that
\* differs in primaryKey or unique only yields no ColumnChange, and a
\* ColumnChange carries the old and the new value of all three fields.
C12_ColumnPartition ==
  BeforeFilter =>
    \A n \in TableNames : InBoth(n) =>
      \E oldCols \in {Range(TableNamed(oldSchema, n).columns)},
         newCols \in {Range(TableNamed(newSchema, n).columns)},
         added \in {AddedNames(n)}, removed \in {RemovedNames(n)}, changed \in {ChangedNames(n)} :
        \E oldNames \in {{c.name : c \in oldCols}}, newNames \in {{c.name : c \in newCols}} :
          /\ added = newNames \ oldNames
          /\ removed = oldNames \ newNames
          /\ changed = {co.name : co \in {c \in oldCols : \E cn \in newCols :
                           /\ cn.name = c.name
                           /\ \/ c.type # cn.type
                              \/ c.nullable # cn.nullable
                              \/ c.defaultVal # cn.defaultVal}}
          /\ \A co \in oldCols : \A cn \in newCols :
               (/\ co.name = cn.name /\ co.type = cn.type
                /\ co.nullable = cn.nullable /\ co.defaultVal = cn.defaultVal)
                 => co.name \notin changed
          /\ added \cap removed = {} /\ added \cap changed = {} /\ removed \cap changed = {}
          /\ \A td \in Range(EntriesFor(n)) :
               /\ NoNameTwice(td.addedColumns)
               /\ NoNameTwice(td.removedColumns)
               /\ NoNameTwice(td.changedColumns)
               /\ Range(td.addedColumns) \subseteq newCols
               /\ Range(td.removedColumns) \subseteq oldCols
               /\ \A cc \in Range(td.changedColumns) :
                    \E co \in oldCols : \E cn \in newCols :
                      /\ co.name = cc.name /\ cn.name = cc.name
                      /\ cc.oldType = co.type /\ cc.newType = cn.type
                      /\ cc.oldNullable = co.nullable /\ cc.newNullable = cn.nullable
                      /\ cc.oldDefault = co.defaultVal /\ cc.newDefault = cn.defaultVal

\* C12's case: an entry with an added column and a ColumnChange of a column
\* whose default alone differs, which carries the equal types and
\* nullabilities too.
C12_Witness ==
  /\ BeforeFilter
  /\ \E td \in Range(diff.changedTables) :
       /\ td.addedColumns # <<>>
       /\ \E cc \in Range(td.changedColumns) :
            /\ cc.oldType = cc.newType
            /\ cc.oldNullable = cc.newNullable
            /\ cc.oldDefault # cc.newDefault

\* C12's other case: a column of both tables that differs in a key flag only,
\* for which the diff holds no ColumnChange.
C12_KeyFlagOnly ==
  /\ BeforeFilter
  /\ \E n \in TableNames :
       /\ InBoth(n)
       /\ \E co \in Range(TableNamed(oldSchema, n).columns) :
            \E cn \in Range(TableNamed(newSchema, n).columns) :
              /\ co.name = cn.name
              /\ co.primaryKey # cn.primaryKey
              /\ co.type = cn.type /\ co.nullable = cn.nullable /\ co.defaultVal = cn.defaultVal
              /\ \A td \in Range(diff.changedTables) :
                   td.name = n => \A cc \in Range(td.changedColumns) : cc.name # co.name

\* C13: the filter changes no verdict and is idempotent:
\* hasBreakingChanges(filterBreakingOnly(d)) = hasBreakingChanges(d) and
\* filterBreakingOnly(filterBreakingOnly(d)) = filterBreakingOnly(d) for every
\* diff d, so the verdict main computes after --breaking-only is that of the
\* unfiltered diff.
C13_FilterKeepsVerdict ==
  /\ BeforeFilter =>
       \E once \in {filterBreakingOnly(diff)} :
         /\ hasBreakingChanges(once) = hasBreakingChanges(diff)
         /\ filterBreakingOnly(once) = once
  /\ (pc = "done" /\ breakingOnly) =>
       breaking = hasBreakingChanges(diffSchemas(oldSchema, newSchema))

\* C13's case: main is done after a filter that dropped something of the
\* diff, with the verdict breaking.
C13_Witness ==
  /\ pc = "done"
  /\ breakingOnly
  /\ breaking
  /\ diff # diffSchemas(oldSchema, newSchema)
  /\ diff.changedTables # <<>>

====
